---- MODULE Spec2Model ----
(***************************************************************************)
(* Model of app/src/handler.py: the multi-tenant task CRUD handler.        *)
(*                                                                         *)
(* Representation.                                                         *)
(*  - A Python str is a sequence of tokens (TLA+ strings).  The tokens     *)
(*    used ("tenant#", "#user#", "task#", "a", "b", "u1", ...) form a      *)
(*    prefix-free code, so two token sequences are equal exactly when the  *)
(*    character strings they spell are equal; f-string formatting is       *)
(*    sequence concatenation.                                              *)
(*  - A Python value (what json.loads returns, what an item attribute      *)
(*    holds) is a record [ty, s, d, l]: ty is "null", "str", "num",        *)
(*    "list" or "dict"; s the text of a str/num, d the mapping of a dict   *)
(*    (a function from str keys to values), l the elements of a list.      *)
(*  - A JSON text (a raw request body, a response body) is a sequence of   *)
(*    lexical tokens [t, s]; json.loads is a recursive-descent parser      *)
(*    over it and json.dumps the serialiser.                               *)
(*  - An optional value (dict.get, a possibly-None variable) is            *)
(*    [some, v].                                                           *)
(***************************************************************************)
EXTENDS Integers, Sequences, FiniteSets, TLC

VARIABLES table, used, origin, phase, req, resp, pre, call, workers, kin, kout

vars == <<table, used, origin, phase, req, resp, pre, call, workers, kin, kout>>

\* table   the items stored, by key <<PK, SK>>
\* used    the task ids uuid4 has generated so far
\* origin  history: the identity attributes each live item was created
\*         with, set by a successful put_item, dropped by a successful
\*         delete_item
\* phase, req, resp, pre, call
\*         the gateway's view of the current invocation (Spec, SpecInput):
\*         the event, what came back, the table before it and the store
\*         call it made
\* workers the concurrent invocations of SpecConc
\* kin, kout  inputs and results of build_keys in SpecKeys

(***************************************************************************)
(* Bounds of the model.                                                    *)
(***************************************************************************)
\* number of task ids uuid4 can hand out (caps the number of Creates)
MaxTasks == 2
\* longest identifier (in tokens) given to build_keys in SpecKeys
MaxIdLen == 2

(***************************************************************************)
(* Python values.                                                          *)
(***************************************************************************)
None == [some |-> FALSE, v |-> <<>>]
Some(x) == [some |-> TRUE, v |-> x]
\* Python truthiness of an optional str: None and "" are falsy
Truthy(o) == o.some /\ o.v # <<>>

VNull == [ty |-> "null", s |-> <<>>, d |-> <<>>, l |-> <<>>]
VStr(x) == [ty |-> "str", s |-> x, d |-> <<>>, l |-> <<>>]
VNum(x) == [ty |-> "num", s |-> x, d |-> <<>>, l |-> <<>>]
VList(x) == [ty |-> "list", s |-> <<>>, d |-> <<>>, l |-> x]
VDict(x) == [ty |-> "dict", s |-> <<>>, d |-> x, l |-> <<>>]

\* the one-token str spelled by the TLA+ string x
S(x) == <<x>>

\* the dict {k: v}; d1 @@ d2 is the dict with the entries of both
Pair(k, v) == (S(k) :> v)
EmptyDict == <<>>

(***************************************************************************)
(* JSON text: lexical tokens.                                              *)
(***************************************************************************)
Tok(t, s) == [t |-> t, s |-> s]
LBrace == Tok("{", <<>>)
RBrace == Tok("}", <<>>)
LBrack == Tok("[", <<>>)
RBrack == Tok("]", <<>>)
Colon == Tok(":", <<>>)
Comma == Tok(",", <<>>)
TNull == Tok("null", <<>>)
TStr(x) == Tok("str", x)
TNum(x) == Tok("num", x)

\* the keys of a dict as a list, in one fixed order
RECURSIVE SetToSeq(_)
SetToSeq(K) ==
  IF K = {} THEN <<>>
  ELSE LET k == CHOOSE x \in K : TRUE IN <<k>> \o SetToSeq(K \ {k})

DictKeys(d) == SetToSeq(DOMAIN d)

RECURSIVE Dumps(_)
RECURSIVE DumpsMembers(_, _, _)
RECURSIVE DumpsElems(_, _)

DumpsMembers(d, ks, i) ==
  IF i > Len(ks) THEN <<>>
  ELSE (IF i = 1 THEN <<>> ELSE <<Comma>>)
         \o <<TStr(ks[i]), Colon>> \o Dumps(d[ks[i]])
         \o DumpsMembers(d, ks, i + 1)

DumpsElems(l, i) ==
  IF i > Len(l) THEN <<>>
  ELSE (IF i = 1 THEN <<>> ELSE <<Comma>>) \o Dumps(l[i]) \o DumpsElems(l, i + 1)

\* json.dumps
Dumps(v) ==
  CASE v.ty = "null" -> <<TNull>>
    [] v.ty = "str" -> <<TStr(v.s)>>
    [] v.ty = "num" -> <<TNum(v.s)>>
    [] v.ty = "list" -> <<LBrack>> \o DumpsElems(v.l, 1) \o <<RBrack>>
    [] v.ty = "dict" -> <<LBrace>> \o DumpsMembers(v.d, DictKeys(v.d), 1) \o <<RBrace>>

ParseFail == [ok |-> FALSE, v |-> VNull, n |-> 0]
ParseOk(v, n) == [ok |-> TRUE, v |-> v, n |-> n]

RECURSIVE ParseValue(_, _)
RECURSIVE ParseMembers(_, _, _)
RECURSIVE ParseElems(_, _, _)

\* after "{" or ",": "key" : value, then "," or "}"
ParseMembers(ts, i, acc) ==
  IF i + 1 > Len(ts) \/ ts[i].t # "str" \/ ts[i + 1] # Colon THEN ParseFail
  ELSE LET r == ParseValue(ts, i + 2) IN
       IF ~r.ok \/ r.n > Len(ts) THEN ParseFail
       ELSE LET acc2 == (ts[i].s :> r.v) @@ acc IN
            CASE ts[r.n] = Comma -> ParseMembers(ts, r.n + 1, acc2)
              [] ts[r.n] = RBrace -> ParseOk(VDict(acc2), r.n + 1)
              [] OTHER -> ParseFail

\* after "[" or ",": value, then "," or "]"
ParseElems(ts, i, acc) ==
  LET r == ParseValue(ts, i) IN
  IF ~r.ok \/ r.n > Len(ts) THEN ParseFail
  ELSE CASE ts[r.n] = Comma -> ParseElems(ts, r.n + 1, Append(acc, r.v))
         [] ts[r.n] = RBrack -> ParseOk(VList(Append(acc, r.v)), r.n + 1)
         [] OTHER -> ParseFail

ParseValue(ts, i) ==
  IF i > Len(ts) THEN ParseFail
  ELSE CASE ts[i].t = "str" -> ParseOk(VStr(ts[i].s), i + 1)
         [] ts[i].t = "num" -> ParseOk(VNum(ts[i].s), i + 1)
         [] ts[i].t = "null" -> ParseOk(VNull, i + 1)
         [] ts[i].t = "[" ->
              IF i + 1 <= Len(ts) /\ ts[i + 1] = RBrack
              THEN ParseOk(VList(<<>>), i + 2)
              ELSE ParseElems(ts, i + 1, <<>>)
         [] ts[i].t = "{" ->
              IF i + 1 <= Len(ts) /\ ts[i + 1] = RBrace
              THEN ParseOk(VDict(EmptyDict), i + 2)
              ELSE ParseMembers(ts, i + 1, EmptyDict)
         [] OTHER -> ParseFail

\* json.loads(x) for an optional str x: [exc, v].  None is not a str
\* (TypeError); a text that is not exactly one JSON value is a
\* JSONDecodeError.
Loads(x) ==
  IF ~x.some THEN [exc |-> "TypeError", v |-> VNull]
  ELSE LET r == ParseValue(x.v, 1) IN
       IF r.ok /\ r.n = Len(x.v) + 1 THEN [exc |-> "", v |-> r.v]
       ELSE [exc |-> "JSONDecodeError", v |-> VNull]

(***************************************************************************)
(* handler.py                                                              *)
(***************************************************************************)
CorsHeaders ==
  ("Content-Type" :> "application/json")
    @@ ("Access-Control-Allow-Origin" :> "*")
    @@ ("Access-Control-Allow-Methods" :> "*")

\* what an invocation yields: a response, or an exception that escapes
NoResponse == [raised |-> "", statusCode |-> 0, body |-> <<>>, headers |-> <<>>]
Raise(exc) == [raised |-> exc, statusCode |-> 0, body |-> <<>>, headers |-> <<>>]

response(status, body) ==
  [raised |-> "", statusCode |-> status, body |-> Dumps(body),
   headers |-> CorsHeaders]

ErrorBody(msg) == VDict(Pair("error", VStr(msg)))
MessageBody(msg) == VDict(Pair("message", VStr(msg)))

TenantPrefix == <<"tenant#">>
UserInfix == <<"#user#">>
TaskPrefix == <<"task#">>

\* build_keys: pk = f"tenant#{tenant_id}#user#{user_id}",
\* sk = f"task#{task_id}" if task_id else None
build_keys(tenant_id, user_id, task_id) ==
  [pk |-> TenantPrefix \o tenant_id.v \o UserInfix \o user_id.v,
   sk |-> IF Truthy(task_id) THEN Some(TaskPrefix \o task_id.v) ELSE None]

\* a validate_path that forgets user_id
validate_path_tenant_only(tenant_id, user_id) ==
  IF ~Truthy(tenant_id)
  THEN [ok |-> FALSE,
        err |-> response(400, ErrorBody(S("Missing tenantId or userId")))]
  ELSE [ok |-> TRUE, err |-> NoResponse]

validate_path(tenant_id, user_id) ==
  IF ~Truthy(tenant_id) \/ ~Truthy(user_id)
  THEN [ok |-> FALSE,
        err |-> response(400, ErrorBody(S("Missing tenantId or userId")))]
  ELSE [ok |-> TRUE, err |-> NoResponse]

\* event.get("body", "{}"): the default applies only when the key is missing
EventBody(event) ==
  CASE event.body.kind = "missing" -> Some(<<LBrace, RBrace>>)
    [] event.body.kind = "none" -> None
    [] OTHER -> Some(event.body.text)

validate_body(event) ==
  LET r == Loads(EventBody(event)) IN
  IF r.exc = "" THEN [ok |-> TRUE, data |-> r.v, err |-> NoResponse]
  ELSE [ok |-> FALSE, data |-> VNull,
        err |-> response(400, ErrorBody(S("Invalid JSON in request body")))]

(***************************************************************************)
(* The table (boto3 Table resource) as the handler uses it.  A store call  *)
(* is [op, pk, sk, item, update_expr, expr_attr]; the table maps a key     *)
(* <<PK, SK>> to the item stored under it.  The table is modelled by what   *)
(* the handler relies on: unconditional put, get by key, update and delete *)
(* conditional on the item existing, and calls that can fail.  The         *)
(* service's expression syntax and its number types are not modelled;      *)
(* attribute values are strs or null and come back as written.             *)
(***************************************************************************)
NoCall ==
  [op |-> "none", pk |-> <<>>, sk |-> None, item |-> EmptyDict,
   update_expr |-> <<>>, expr_attr |-> EmptyDict]

PutItem(item) ==
  [op |-> "put", pk |-> item[S("PK")].s, sk |-> Some(item[S("SK")].s),
   item |-> item, update_expr |-> <<>>, expr_attr |-> EmptyDict]

GetItem(pk, sk) ==
  [op |-> "get", pk |-> pk, sk |-> sk, item |-> EmptyDict,
   update_expr |-> <<>>, expr_attr |-> EmptyDict]

UpdateItem(pk, sk, update_expr, expr_attr) ==
  [op |-> "update", pk |-> pk, sk |-> sk, item |-> EmptyDict,
   update_expr |-> update_expr, expr_attr |-> expr_attr]

DeleteItem(pk, sk) ==
  [op |-> "delete", pk |-> pk, sk |-> sk, item |-> EmptyDict,
   update_expr |-> <<>>, expr_attr |-> EmptyDict]

CallKey(c) == <<c.pk, c.sk.v>>

\* the outcome of a store call: err is "" or the error code of the
\* exception raised; found/item the item read or returned; table the
\* table after the call
Outcome(err, found, item, tbl) ==
  [err |-> err, found |-> found, item |-> item, table |-> tbl]

\* ConditionExpression="attribute_exists(PK)"
AttributeExistsPK(c, tbl) ==
  CallKey(c) \in DOMAIN tbl /\ S("PK") \in DOMAIN tbl[CallKey(c)]

\* UpdateExpression "SET k = :k, ..." applied to an item
ApplySet(item, update_expr, expr_attr) ==
  LET names == {update_expr[i].name : i \in 1..Len(update_expr)}
      refOf(k) == (CHOOSE i \in 1..Len(update_expr) : update_expr[i].name = k)
  IN [k \in DOMAIN item \cup names |->
        IF k \in names THEN expr_attr[update_expr[refOf(k)].ref] ELSE item[k]]

Remove(tbl, key) == [k \in DOMAIN tbl \ {key} |-> tbl[k]]

\* a table whose update_item is sent without its ConditionExpression: the
\* store then creates the item it does not find
StoreExecUpsert(c, tbl, fault) ==
  IF fault # "" THEN Outcome(fault, FALSE, EmptyDict, tbl)
  ELSE IF ~c.sk.some THEN Outcome("ValidationException", FALSE, EmptyDict, tbl)
  ELSE CASE c.op = "put" ->
              Outcome("", FALSE, EmptyDict, (CallKey(c) :> c.item) @@ tbl)
         [] c.op = "get" ->
              IF CallKey(c) \in DOMAIN tbl
              THEN Outcome("", TRUE, tbl[CallKey(c)], tbl)
              ELSE Outcome("", FALSE, EmptyDict, tbl)
         [] c.op = "update" ->
              LET old == IF CallKey(c) \in DOMAIN tbl THEN tbl[CallKey(c)]
                         ELSE Pair("PK", VStr(c.pk)) @@ Pair("SK", VStr(c.sk.v))
                  new == ApplySet(old, c.update_expr, c.expr_attr)
              IN Outcome("", TRUE, new, (CallKey(c) :> new) @@ tbl)
         [] c.op = "delete" ->
              IF AttributeExistsPK(c, tbl)
              THEN Outcome("", FALSE, EmptyDict, Remove(tbl, CallKey(c)))
              ELSE Outcome("ConditionalCheckFailedException", FALSE, EmptyDict, tbl)
         [] OTHER -> Outcome("", FALSE, EmptyDict, tbl)

\* One store call, atomic in the store.  fault # "" is a store-level
\* failure of the call (throttling, transport, ...); a key whose SK is
\* None is rejected by the store.
StoreExec(c, tbl, fault) ==
  IF fault # "" THEN Outcome(fault, FALSE, EmptyDict, tbl)
  ELSE IF ~c.sk.some THEN Outcome("ValidationException", FALSE, EmptyDict, tbl)
  ELSE CASE c.op = "put" ->
              Outcome("", FALSE, EmptyDict, (CallKey(c) :> c.item) @@ tbl)
         [] c.op = "get" ->
              IF CallKey(c) \in DOMAIN tbl
              THEN Outcome("", TRUE, tbl[CallKey(c)], tbl)
              ELSE Outcome("", FALSE, EmptyDict, tbl)
         [] c.op = "update" ->
              IF AttributeExistsPK(c, tbl)
              THEN LET new == ApplySet(tbl[CallKey(c)], c.update_expr, c.expr_attr)
                   IN Outcome("", TRUE, new, (CallKey(c) :> new) @@ tbl)
              ELSE Outcome("ConditionalCheckFailedException", FALSE, EmptyDict, tbl)
         [] c.op = "delete" ->
              IF AttributeExistsPK(c, tbl)
              THEN Outcome("", FALSE, EmptyDict, Remove(tbl, CallKey(c)))
              ELSE Outcome("ConditionalCheckFailedException", FALSE, EmptyDict, tbl)
         [] OTHER -> Outcome("", FALSE, EmptyDict, tbl)

(***************************************************************************)
(* The four operations.  Each is split at its single store call: the       *)
(* _request part runs up to the call and yields either the response        *)
(* returned (or exception raised) before any call, or the call; the        *)
(* _result part turns the store's outcome into the response.               *)
(***************************************************************************)
Early(r) == [early |-> TRUE, resp |-> r, call |-> NoCall]
Issue(c) == [early |-> FALSE, resp |-> NoResponse, call |-> c]

\* x in s for two strs: s has x as a substring
Contains(s, x) ==
  \E i \in 0..(Len(s) - Len(x)) : SubSeq(s, i + 1, i + Len(x)) = x

\* "title" in data: [exc, has]
TitleIn(data) ==
  CASE data.ty = "dict" -> [exc |-> "", has |-> S("title") \in DOMAIN data.d]
    [] data.ty = "str" -> [exc |-> "", has |-> Contains(data.s, S("title"))]
    [] data.ty = "list" ->
         [exc |-> "", has |-> \E i \in 1..Len(data.l) : data.l[i] = VStr(S("title"))]
    [] OTHER -> [exc |-> "TypeError", has |-> FALSE]

\* data.get(k, default)
DictGet(d, k, default) == IF S(k) \in DOMAIN d THEN d[S(k)] ELSE default

\* an item whose status is data.get("status"), without the default
create_task_item_no_default(pk, tenant_id, user_id, data, task_id) ==
  Pair("PK", VStr(pk))
    @@ Pair("SK", VStr(TaskPrefix \o task_id))
    @@ Pair("taskId", VStr(task_id))
    @@ Pair("tenantId", VStr(tenant_id.v))
    @@ Pair("userId", VStr(user_id.v))
    @@ Pair("title", data.d[S("title")])
    @@ Pair("description", DictGet(data.d, "description", VNull))
    @@ Pair("status", DictGet(data.d, "status", VNull))

create_task_item(pk, tenant_id, user_id, data, task_id) ==
  Pair("PK", VStr(pk))
    @@ Pair("SK", VStr(TaskPrefix \o task_id))
    @@ Pair("taskId", VStr(task_id))
    @@ Pair("tenantId", VStr(tenant_id.v))
    @@ Pair("userId", VStr(user_id.v))
    @@ Pair("title", data.d[S("title")])
    @@ Pair("description", DictGet(data.d, "description", VNull))
    @@ Pair("status", DictGet(data.d, "status", VStr(S("pending"))))

\* task_id is the value of str(uuid.uuid4())
create_task_request(pk, tenant_id, user_id, event, task_id) ==
  LET b == validate_body(event)
      t == TitleIn(b.data)
  IN IF ~b.ok THEN Early(b.err)
     ELSE IF t.exc # "" THEN Early(Raise(t.exc))
     ELSE IF ~t.has THEN Early(response(400, ErrorBody(S("title is required"))))
     ELSE IF b.data.ty # "dict" THEN Early(Raise("TypeError"))
     ELSE Issue(PutItem(create_task_item(pk, tenant_id, user_id, b.data, task_id)))

create_task_result(c, out) ==
  IF out.err # "" THEN Raise("ClientError")
  ELSE response(201, VDict(c.item))

get_task_request(pk, sk) == Issue(GetItem(pk, sk))

get_task_result(out) ==
  IF out.err # "" THEN response(500, ErrorBody(S("Internal server error")))
  ELSE IF ~out.found THEN response(404, ErrorBody(S("Task not found")))
  ELSE response(200, VDict(out.item))

\* a protected set that leaves out tenantId and userId
protected_keys_only == {S("PK"), S("SK"), S("taskId")}

protected == {S("PK"), S("SK"), S("tenantId"), S("userId"), S("taskId")}

\* f":{k}"
Ref(k) == <<":">> \o k

RECURSIVE UpdateExpr(_, _)
\* the loop over data.items(): one "k = :k" per field not protected
UpdateExpr(ks, i) ==
  IF i > Len(ks) THEN <<>>
  ELSE (IF ks[i] \notin protected
        THEN <<[name |-> ks[i], ref |-> Ref(ks[i])]>> ELSE <<>>)
         \o UpdateExpr(ks, i + 1)

ExprAttr(d) == [r \in {Ref(k) : k \in DOMAIN d \ protected} |-> d[Tail(r)]]

\* an update_task without the "if not update_expr" return
update_task_request_unchecked(pk, sk, event) ==
  LET b == validate_body(event) IN
  IF ~b.ok THEN Early(b.err)
  ELSE IF b.data.ty # "dict" THEN Early(Raise("AttributeError"))
  ELSE Issue(UpdateItem(pk, sk, UpdateExpr(DictKeys(b.data.d), 1), ExprAttr(b.data.d)))

update_task_request(pk, sk, event) ==
  LET b == validate_body(event) IN
  IF ~b.ok THEN Early(b.err)
  ELSE IF b.data.ty # "dict" THEN Early(Raise("AttributeError"))
  ELSE LET update_expr == UpdateExpr(DictKeys(b.data.d), 1)
           expr_attr == ExprAttr(b.data.d)
       IN IF update_expr = <<>>
          THEN Early(response(400, ErrorBody(S("No valid fields to update"))))
          ELSE Issue(UpdateItem(pk, sk, update_expr, expr_attr))

update_task_result(out) ==
  IF out.err = "ConditionalCheckFailedException"
  THEN response(404, ErrorBody(S("Task not found")))
  ELSE IF out.err # "" THEN Raise("ClientError")
  ELSE response(200, VDict(Pair("message", VStr(S("Task updated")))
                            @@ Pair("task", VDict(out.item))))

delete_task_request(pk, sk) == Issue(DeleteItem(pk, sk))

\* a delete_task that answers 200 whatever the store said
delete_task_result_always_ok(out) == response(200, MessageBody(S("Task deleted")))

delete_task_result(out) ==
  IF out.err = "ConditionalCheckFailedException"
  THEN response(404, ErrorBody(S("Task not found")))
  ELSE IF out.err # "" THEN Raise("ClientError")
  ELSE response(200, MessageBody(S("Task deleted")))

(***************************************************************************)
(* lambda_handler.  An event is [httpMethod, pathParameters, body]:        *)
(* pathParameters is [isNone, d] (None, or a dict from parameter names to  *)
(* strs), body is [kind, text] with kind "missing" (no "body" key),        *)
(* "none" (null) or "str".                                                 *)
(***************************************************************************)
\* event.get("pathParameters") or {}
PathParams(event) ==
  IF event.pathParameters.isNone THEN <<>> ELSE event.pathParameters.d

\* path_params.get(k)
PathGet(params, k) == IF k \in DOMAIN params THEN Some(params[k]) ELSE None

TenantId(event) == PathGet(PathParams(event), "tenantId")
UserId(event) == PathGet(PathParams(event), "userId")
TaskId(event) == PathGet(PathParams(event), "taskId")

lambda_handler_request(event, uuid) ==
  LET tenant_id == TenantId(event)
      user_id == UserId(event)
      task_id == TaskId(event)
      v == validate_path(tenant_id, user_id)
      keys == build_keys(tenant_id, user_id, task_id)
  IN IF ~v.ok THEN Early(v.err)
     ELSE CASE event.httpMethod = "POST" ->
                 create_task_request(keys.pk, tenant_id, user_id, event, uuid)
            [] event.httpMethod = "GET" -> get_task_request(keys.pk, keys.sk)
            [] event.httpMethod = "PUT" -> update_task_request(keys.pk, keys.sk, event)
            [] event.httpMethod = "DELETE" -> delete_task_request(keys.pk, keys.sk)
            [] OTHER ->
                 Early(response(400, ErrorBody(<<"Unsupported method ", event.httpMethod>>)))

lambda_handler_result(c, out) ==
  CASE c.op = "put" -> create_task_result(c, out)
    [] c.op = "get" -> get_task_result(out)
    [] c.op = "update" -> update_task_result(out)
    [] c.op = "delete" -> delete_task_result(out)

\* one whole invocation against table tbl: [resp, table, call]
lambda_handler(event, tbl, uuid, fault) ==
  LET p == lambda_handler_request(event, uuid) IN
  IF p.early THEN [resp |-> p.resp, table |-> tbl, call |-> NoCall]
  ELSE LET out == StoreExec(p.call, tbl, fault) IN
       [resp |-> lambda_handler_result(p.call, out), table |-> out.table,
        call |-> p.call]

(***************************************************************************)
(* Inputs.                                                                 *)
(***************************************************************************)
UuidNames == <<"u1", "u2", "u3", "u4", "u5">>
\* what str(uuid.uuid4()) can return
Uuids == {S(UuidNames[i]) : i \in 1..MaxTasks}

BodyMissing == [kind |-> "missing", text |-> <<>>]
BodyNone == [kind |-> "none", text |-> <<>>]
BodyStr(ts) == [kind |-> "str", text |-> ts]

TitleOnly == VDict(Pair("title", VStr(S("Buy milk"))))
TitleFull ==
  VDict(Pair("title", VStr(S("Buy milk")))
          @@ Pair("description", VStr(S("d"))) @@ Pair("status", VStr(S("done"))))
StatusDone == VDict(Pair("status", VStr(S("done"))) @@ Pair("description", VStr(S("d"))))
ProtectedOnly == VDict(Pair("PK", VStr(S("x"))))
AllProtected ==
  VDict(Pair("PK", VStr(S("x"))) @@ Pair("SK", VStr(S("x")))
          @@ Pair("tenantId", VStr(S("x"))) @@ Pair("userId", VStr(S("x")))
          @@ Pair("taskId", VStr(S("x"))))
Mixed == AllProtected.d @@ StatusDone.d

\* bodies that are a JSON object
ObjectBodies ==
  {BodyStr(Dumps(v)) :
     v \in {VDict(EmptyDict), TitleOnly, TitleFull, StatusDone, ProtectedOnly,
            AllProtected, VDict(Mixed)}}

\* bodies that are JSON, but no object: 5, [], ["title"], "title", "x", null
ScalarBodies ==
  {BodyStr(Dumps(v)) :
     v \in {VNum(S("5")), VList(<<>>), VList(<<VStr(S("title"))>>),
            VStr(S("title")), VStr(S("x")), VNull}}

\* non-empty bodies that are no JSON: "{", "{} {}", "title"
BrokenBodies ==
  {BodyStr(<<LBrace>>), BodyStr(<<LBrace, RBrace, LBrace, RBrace>>),
   BodyStr(<<Tok("word", S("title"))>>)}

EmptyBodies == {BodyMissing, BodyNone, BodyStr(<<>>)}

AllBodies == EmptyBodies \cup BrokenBodies \cup ScalarBodies \cup ObjectBodies

ParamNames == {"tenantId", "userId", "taskId"}

\* the pathParameters dict with the given optional values
MkPath(t, u, k) ==
  LET sel(n) == CASE n = "tenantId" -> t [] n = "userId" -> u [] OTHER -> k
  IN [isNone |-> FALSE, d |-> [n \in {m \in ParamNames : sel(m).some} |-> sel(n).v]]

NoPath == [isNone |-> TRUE, d |-> <<>>]

Opt(X) == {None} \cup {Some(x) : x \in X}

Paths(Ts, Us, Ks) == {MkPath(t, u, k) : t \in Ts, u \in Us, k \in Ks}

Events(Ms, Ps, Bs) ==
  {[httpMethod |-> m, pathParameters |-> p, body |-> b] : m \in Ms, p \in Ps, b \in Bs}

NoEvent == [httpMethod |-> "", pathParameters |-> NoPath, body |-> BodyMissing]

\* Two tenants and two users; the first tenant's id is a prefix of the
\* second's.
TenantIds == {<<"a">>, <<"a", "#user#", "b">>}
UserIds == {<<"b">>, <<"b", "#user#", "b">>}

\* Spec: well-formed requests of the four routes, over all tenants and users
StorePaths == Paths(Opt(TenantIds) \ {None}, Opt(UserIds) \ {None}, Opt(Uuids))
StoreEvents ==
  Events({"POST"}, StorePaths,
         {BodyStr(Dumps(v)) : v \in {VDict(EmptyDict), TitleOnly, TitleFull}})
    \cup Events({"PUT"}, StorePaths,
                {BodyStr(Dumps(v)) : v \in {StatusDone, ProtectedOnly, VDict(Mixed)}})
    \cup Events({"GET", "DELETE"}, StorePaths, {BodyNone})

\* SpecInput: every method, path and body, for one tenant and user
InputPaths ==
  {NoPath} \cup Paths(Opt({<<>>, <<"a">>}), Opt({<<>>, <<"b">>}), Opt(Uuids))
InputEvents == Events({"POST", "GET", "PUT", "DELETE", "PATCH"}, InputPaths, AllBodies)

\* store-level failures of a call other than a failed condition
Faults == {"", "ProvisionedThroughputExceededException"}

(***************************************************************************)
(* Invocations, one at a time (Spec, SpecInput).                           *)
(***************************************************************************)
IdentityNames == {S("PK"), S("SK"), S("tenantId"), S("userId"), S("taskId")}

Identity(item) == [k \in IdentityNames \cap DOMAIN item |-> item[k]]

\* the history of successful creates and deletes
OriginAfter(org, c, err) ==
  IF err # "" THEN org
  ELSE CASE c.op = "put" -> (CallKey(c) :> Identity(c.item)) @@ org
         [] c.op = "delete" -> Remove(org, CallKey(c))
         [] OTHER -> org

SomeUuid == CHOOSE u \in Uuids : TRUE

\* the task ids uuid4 may return to this invocation: a fresh one if the
\* invocation gets as far as generating one
UuidChoices(event) ==
  IF lambda_handler_request(event, SomeUuid).call.op = "put"
  THEN Uuids \ used ELSE {SomeUuid}

Invoke(E) ==
  /\ phase = "idle"
  /\ \E event \in E : \E uuid \in UuidChoices(event) :
       LET p == lambda_handler_request(event, uuid) IN
       \E fault \in (IF p.early THEN {""} ELSE Faults) :
         LET out == StoreExec(p.call, table, fault) IN
         /\ phase' = "done"
         /\ req' = event
         /\ pre' = table
         /\ call' = [c |-> p.call, err |-> IF p.early THEN "" ELSE out.err]
         /\ resp' = IF p.early THEN p.resp ELSE lambda_handler_result(p.call, out)
         /\ table' = IF p.early THEN table ELSE out.table
         /\ used' = IF p.call.op = "put" THEN used \cup {uuid} ELSE used
         /\ origin' = IF p.early THEN origin ELSE OriginAfter(origin, p.call, out.err)
  /\ UNCHANGED <<workers, kin, kout>>

\* the gateway takes the response; the next invocation can start
Return ==
  /\ phase = "done"
  /\ phase' = "idle"
  /\ req' = NoEvent
  /\ resp' = NoResponse
  /\ call' = [c |-> NoCall, err |-> ""]
  /\ pre' = table
  /\ UNCHANGED <<table, used, origin, workers, kin, kout>>

InvokeStore == Invoke(StoreEvents)
InvokeInput == Invoke(InputEvents)

(***************************************************************************)
(* Concurrent invocations (SpecConc): each worker runs lambda_handler; an  *)
(* invocation's only shared step is its store call.                        *)
(***************************************************************************)
Workers == {"w1", "w2"}

IdleWorker ==
  [pc |-> "idle", call |-> NoCall, err |-> "", resp |-> NoResponse,
   absentBefore |-> FALSE, absentAfter |-> FALSE]

\* one tenant and user; every route, with a task id
ConcPaths == Paths({Some(<<"a">>)}, {Some(<<"b">>)}, Opt(Uuids) \ {None})
ConcEvents ==
  Events({"POST"}, ConcPaths, {BodyStr(Dumps(v)) : v \in {VDict(EmptyDict), TitleOnly}})
    \cup Events({"PUT"}, ConcPaths, {BodyStr(Dumps(StatusDone))})
    \cup Events({"GET", "DELETE"}, ConcPaths, {BodyNone})

\* lambda_handler up to its store call
ConcBegin(w) ==
  /\ workers[w].pc = "idle"
  /\ \E event \in ConcEvents : \E uuid \in UuidChoices(event) :
       LET p == lambda_handler_request(event, uuid) IN
       /\ workers' =
            [workers EXCEPT ![w] =
               IF p.early
               THEN [IdleWorker EXCEPT !.pc = "done", !.resp = p.resp]
               ELSE [IdleWorker EXCEPT !.pc = "calling", !.call = p.call]]
       /\ used' = IF p.call.op = "put" THEN used \cup {uuid} ELSE used
  /\ UNCHANGED <<table, origin, phase, req, resp, pre, call, kin, kout>>

\* the store call and the rest of lambda_handler
ConcStoreCall(w) ==
  /\ workers[w].pc = "calling"
  /\ \E fault \in Faults :
       LET c == workers[w].call
           out == StoreExec(c, table, fault)
       IN /\ table' = out.table
          /\ origin' = OriginAfter(origin, c, out.err)
          /\ workers' =
               [workers EXCEPT ![w] =
                  [pc |-> "done", call |-> c, err |-> out.err,
                   resp |-> lambda_handler_result(c, out),
                   absentBefore |-> c.sk.some /\ CallKey(c) \notin DOMAIN table,
                   absentAfter |-> c.sk.some /\ CallKey(c) \notin DOMAIN out.table]]
  /\ UNCHANGED <<used, phase, req, resp, pre, call, kin, kout>>

\* the response is handed back
ConcEnd(w) ==
  /\ workers[w].pc = "done"
  /\ workers' = [workers EXCEPT ![w] = IdleWorker]
  /\ UNCHANGED <<table, used, origin, phase, req, resp, pre, call, kin, kout>>

(***************************************************************************)
(* build_keys on its own (SpecKeys).                                       *)
(***************************************************************************)
IdTokens == {"a", "#user#"}

\* the non-empty identifiers of at most MaxIdLen tokens
Ids == UNION {[1..n -> IdTokens] : n \in 1..MaxIdLen}

KeyInputs ==
  {[t1 |-> a, u1 |-> b, k1 |-> <<"a">>, t2 |-> c, u2 |-> d, k2 |-> <<"a">>] :
     a \in Ids, b \in Ids, c \in Ids, d \in Ids}
    \cup {[t1 |-> <<"a">>, u1 |-> <<"a">>, k1 |-> a, t2 |-> <<"a">>, u2 |-> <<"a">>, k2 |-> b] :
            a \in Ids, b \in Ids}

BuildKeys ==
  /\ kout = <<>>
  /\ kout' = <<build_keys(Some(kin.t1), Some(kin.u1), Some(kin.k1)),
               build_keys(Some(kin.t2), Some(kin.u2), Some(kin.k2))>>
  /\ UNCHANGED <<table, used, origin, phase, req, resp, pre, call, workers, kin>>

NoKeys == [t1 |-> <<>>, u1 |-> <<>>, k1 |-> <<>>, t2 |-> <<>>, u2 |-> <<>>, k2 |-> <<>>]

Init ==
  /\ table = <<>>
  /\ used = {}
  /\ origin = <<>>
  /\ phase = "idle"
  /\ req = NoEvent
  /\ resp = NoResponse
  /\ pre = <<>>
  /\ call = [c |-> NoCall, err |-> ""]
  /\ workers = [w \in Workers |-> IdleWorker]
  /\ kin = NoKeys
  /\ kout = <<>>

Next == InvokeStore \/ Return

Spec == Init /\ [][Next]_vars

NextInput == InvokeInput \/ Return

SpecInput == Init /\ [][NextInput]_vars

NextConc == \E w \in Workers : ConcBegin(w) \/ ConcStoreCall(w) \/ ConcEnd(w)

SpecConc == Init /\ [][NextConc]_vars

InitKeys ==
  /\ table = <<>>
  /\ used = {}
  /\ origin = <<>>
  /\ phase = "idle"
  /\ req = NoEvent
  /\ resp = NoResponse
  /\ pre = <<>>
  /\ call = [c |-> NoCall, err |-> ""]
  /\ workers = [w \in Workers |-> IdleWorker]
  /\ kin \in KeyInputs
  /\ kout = <<>>

NextKeys == BuildKeys

SpecKeys == InitKeys /\ [][NextKeys]_vars

(***************************************************************************)
(* Properties.                                                             *)
(***************************************************************************)
Done == phase = "done"

\* the path parameter n is absent from the event, or empty
ParamMissing(e, n) ==
  \/ e.pathParameters.isNone
  \/ n \notin DOMAIN e.pathParameters.d
  \/ e.pathParameters.d[n] = <<>>

PathOk(e) == ~ParamMissing(e, "tenantId") /\ ~ParamMissing(e, "userId")

\* r is a response with this status, the CORS headers, and a body that is
\* the JSON text of v
Is(r, status, v) ==
  /\ r.raised = ""
  /\ r.statusCode = status
  /\ r.headers = CorsHeaders
  /\ Loads(Some(r.body)) = [exc |-> "", v |-> v]

IsError(r, status, msg) == Is(r, status, VDict(Pair("error", VStr(S(msg)))))

\* the request's body as the gateway sent it is empty
EmptyBody(e) == e.body.kind \in {"missing", "none"} \/ e.body.text = <<>>

\* the request's body is a non-empty text; BodyJson is what it parses to
HasText(e) == e.body.kind = "str" /\ e.body.text # <<>>
BodyJson(e) == Loads(Some(e.body.text))
IsObject(e) == HasText(e) /\ BodyJson(e).exc = "" /\ BodyJson(e).v.ty = "dict"

\* the key <<PK, SK>> a request with all three path parameters names
ReqKey(e) ==
  << <<"tenant#">> \o e.pathParameters.d["tenantId"] \o <<"#user#">>
       \o e.pathParameters.d["userId"],
     <<"task#">> \o e.pathParameters.d["taskId"] >>

HasKey(e) == PathOk(e) /\ ~ParamMissing(e, "taskId")

\* the store call of the invocation did not fail at store level
NoFault == call.err \in {"", "ConditionalCheckFailedException"}

\* C1: an invocation whose path parameters lack tenantId or userId, or
\* carry an empty value for either, returns 400 "Missing tenantId or
\* userId" whatever the method and body, issues no store call and leaves
\* the stored items unchanged.
C1_MissingPathIs400 ==
  Done /\ ~PathOk(req) =>
    /\ IsError(resp, 400, "Missing tenantId or userId")
    /\ call.c.op = "none"
    /\ table = pre

\* a DELETE without userId that names a stored task id is answered 400
C1_Witness ==
  /\ Done
  /\ req.httpMethod = "DELETE"
  /\ ~ParamMissing(req, "tenantId") /\ ParamMissing(req, "userId")
  /\ ~ParamMissing(req, "taskId")
  /\ \E key \in DOMAIN table : key[2] = <<"task#">> \o req.pathParameters.d["taskId"]
  /\ resp.statusCode = 400

\* C2: for Create and Update an empty body (missing, null or the empty
\* string) is validated as {}, so Create answers 400 "title is required"
\* and Update 400 "No valid fields to update"; 400 "Invalid JSON in request
\* body" is produced only for a non-empty body that does not parse.
C2_EmptyBodyIsEmptyObject ==
  Done /\ PathOk(req) /\ req.httpMethod \in {"POST", "PUT"} =>
    /\ EmptyBody(req) =>
         IF req.httpMethod = "POST"
         THEN IsError(resp, 400, "title is required")
         ELSE IsError(resp, 400, "No valid fields to update")
    /\ IsError(resp, 400, "Invalid JSON in request body") =>
         HasText(req) /\ BodyJson(req).exc # ""

\* C3: every invocation returns a structured response; an exception
\* escapes only when the store call of Create, Update or Delete fails with
\* a store-level error other than a failed condition; a store failure
\* during Get is answered 500 "Internal server error".
C3_OnlyWriteStoreErrorsEscape ==
  Done =>
    /\ resp.raised # "" => call.c.op \in {"put", "update", "delete"} /\ ~NoFault
    /\ resp.raised = "" =>
         resp.statusCode \in {200, 201, 400, 404, 500} /\ resp.headers = CorsHeaders
    /\ req.httpMethod = "GET" /\ PathOk(req) /\ call.err # "" =>
         IsError(resp, 500, "Internal server error")

\* C10: an invocation answered 400 or 404 leaves the stored items
\* unchanged, and so does every GET; the 400 cases (missing path
\* parameters, invalid JSON, missing title, an Update body with no field
\* outside the protected set, unsupported method) are decided without a
\* store call, so such an Update is answered 400 "No valid fields to
\* update" even when the task does not exist.
C10_RejectedRequestsHaveNoEffect ==
  Done =>
    /\ resp.raised = "" /\ resp.statusCode \in {400, 404} => table = pre
    /\ resp.raised = "" /\ resp.statusCode = 400 => call.c.op = "none"
    /\ req.httpMethod = "GET" => table = pre
    /\ ~PathOk(req) => resp.statusCode = 400
    /\ PathOk(req) /\ req.httpMethod \in {"POST", "PUT"} /\ HasText(req)
         /\ BodyJson(req).exc # ""
         => IsError(resp, 400, "Invalid JSON in request body")
    /\ PathOk(req) /\ req.httpMethod = "POST" /\ IsObject(req)
         /\ <<"title">> \notin DOMAIN BodyJson(req).v.d
         => IsError(resp, 400, "title is required")
    /\ PathOk(req) /\ req.httpMethod = "PUT" /\ IsObject(req)
         /\ DOMAIN BodyJson(req).v.d \subseteq
              {<<"PK">>, <<"SK">>, <<"tenantId">>, <<"userId">>, <<"taskId">>}
         => IsError(resp, 400, "No valid fields to update")
    /\ PathOk(req) /\ req.httpMethod \notin {"POST", "GET", "PUT", "DELETE"}
         => Is(resp, 400, VDict(Pair("error", VStr(<<"Unsupported method ", req.httpMethod>>))))

\* an Update naming only protected fields, addressed to a task that does
\* not exist while another does, is answered 400
C10_Witness ==
  /\ Done
  /\ req.httpMethod = "PUT" /\ HasKey(req) /\ IsObject(req)
  /\ DOMAIN BodyJson(req).v.d = {<<"PK">>, <<"SK">>, <<"tenantId">>, <<"userId">>, <<"taskId">>}
  /\ ReqKey(req) \notin DOMAIN table
  /\ table # <<>>
  /\ resp.statusCode = 400

\* C4: build_keys is injective: two (tenantId, userId) pairs that differ
\* give primary keys that differ, and two task ids that differ give, under
\* the same tenant and user, secondary keys that differ.
C4_BuildKeysInjective ==
  kout # <<>> =>
    /\ <<kin.t1, kin.u1>> # <<kin.t2, kin.u2>> => kout[1].pk # kout[2].pk
    /\ kin.t1 = kin.t2 /\ kin.u1 = kin.u2 /\ kin.k1 # kin.k2 => kout[1].sk # kout[2].sk

\* C5: a request naming tenant A never addresses an item whose tenantId is
\* B # A: a Get does not return it, and after any invocation it is still
\* stored, unchanged.
C5_TenantIsolation ==
  Done /\ PathOk(req) =>
    \A key \in DOMAIN pre :
      pre[key][<<"tenantId">>].s # req.pathParameters.d["tenantId"] =>
        /\ key \in DOMAIN table /\ table[key] = pre[key]
        /\ ~Is(resp, 200, VDict(pre[key]))

\* the GET a client sends for the task (tenant, user, task)
GetEvent(tenant, user, task) ==
  [httpMethod |-> "GET", pathParameters |-> MkPath(Some(tenant), Some(user), Some(task)),
   body |-> BodyNone]

\* what the table answers, with no store failure, to a GET for the key the
\* current request names
GetNow(e) ==
  lambda_handler(GetEvent(e.pathParameters.d["tenantId"], e.pathParameters.d["userId"],
                          e.pathParameters.d["taskId"]), table, SomeUuid, "").resp

\* t is s without the item under key
Without(s, key, t) ==
  DOMAIN t = DOMAIN s \ {key} /\ \A k \in DOMAIN t : t[k] = s[k]

\* C7: a DELETE of a stored key returns 200 "Task deleted" and removes
\* exactly that item; a DELETE of a key with no item returns 404 "Task not
\* found" and changes nothing; a GET of a key with no item returns 404,
\* and only a Create puts an item under a key that had none, so every GET
\* after the DELETE returns 404 until then.  (A store call that fails at
\* store level raises out of DELETE and changes nothing.)
C7_DeleteThenGet ==
  Done =>
    /\ \A key \in DOMAIN table \ DOMAIN pre : req.httpMethod = "POST"
    /\ HasKey(req) /\ req.httpMethod = "DELETE" =>
         IF ~NoFault THEN resp.raised = "ClientError" /\ table = pre
         ELSE IF ReqKey(req) \in DOMAIN pre
         THEN /\ Is(resp, 200, VDict(Pair("message", VStr(S("Task deleted")))))
              /\ Without(pre, ReqKey(req), table)
              /\ IsError(GetNow(req), 404, "Task not found")
         ELSE /\ IsError(resp, 404, "Task not found")
              /\ table = pre
    /\ HasKey(req) /\ req.httpMethod = "GET" /\ NoFault /\ ReqKey(req) \notin DOMAIN pre
         => IsError(resp, 404, "Task not found")

\* a DELETE of one of two stored items answered 200
C7_Witness ==
  /\ Done
  /\ req.httpMethod = "DELETE" /\ HasKey(req)
  /\ ReqKey(req) \in DOMAIN pre
  /\ resp.statusCode = 200
  /\ table # <<>>

\* C8: a POST with valid tenantId and userId and a body with a title
\* returns 201 with the stored item (status "pending" and description null
\* unless supplied, PK tenant#{tenantId}#user#{userId}); a GET for the
\* returned taskId then returns 200 with the same item, and so does every
\* later GET, since a GET returns the stored item and only an Update or a
\* Delete of that key changes it.
C8_CreateGetRoundTrip ==
  Done =>
    /\ PathOk(req) /\ req.httpMethod = "POST" /\ IsObject(req)
         /\ <<"title">> \in DOMAIN BodyJson(req).v.d /\ call.err = ""
         => LET data == BodyJson(req).v.d
                r == Loads(Some(resp.body))
                item == r.v.d
                key == <<item[<<"PK">>].s, item[<<"SK">>].s>>
            IN /\ resp.raised = "" /\ resp.statusCode = 201
               /\ r.exc = "" /\ r.v.ty = "dict"
               /\ DOMAIN item = {<<"PK">>, <<"SK">>, <<"taskId">>, <<"tenantId">>,
                                 <<"userId">>, <<"title">>, <<"description">>, <<"status">>}
               /\ item[<<"title">>] = data[<<"title">>]
               /\ item[<<"status">>] =
                    IF <<"status">> \in DOMAIN data THEN data[<<"status">>]
                    ELSE VStr(<<"pending">>)
               /\ item[<<"description">>] =
                    IF <<"description">> \in DOMAIN data THEN data[<<"description">>]
                    ELSE VNull
               /\ item[<<"PK">>] =
                    VStr(<<"tenant#">> \o req.pathParameters.d["tenantId"]
                           \o <<"#user#">> \o req.pathParameters.d["userId"])
               /\ item[<<"tenantId">>] = VStr(req.pathParameters.d["tenantId"])
               /\ item[<<"userId">>] = VStr(req.pathParameters.d["userId"])
               /\ item[<<"SK">>] = VStr(<<"task#">> \o item[<<"taskId">>].s)
               /\ key \notin DOMAIN pre
               /\ key \in DOMAIN table /\ table[key] = item
               /\ Is(lambda_handler(GetEvent(req.pathParameters.d["tenantId"],
                                             req.pathParameters.d["userId"],
                                             item[<<"taskId">>].s),
                                    table, SomeUuid, "").resp,
                     200, VDict(item))
    /\ HasKey(req) /\ req.httpMethod = "GET" /\ call.err = "" /\ ReqKey(req) \in DOMAIN pre
         => Is(resp, 200, VDict(pre[ReqKey(req)]))
    /\ \A key \in DOMAIN pre :
         key \notin DOMAIN table \/ table[key] # pre[key]
           => req.httpMethod \in {"PUT", "DELETE"} /\ HasKey(req) /\ ReqKey(req) = key

\* a second task created from a body with only a title
C8_Witness ==
  /\ Done
  /\ req.httpMethod = "POST" /\ IsObject(req)
  /\ DOMAIN BodyJson(req).v.d = {<<"title">>}
  /\ resp.statusCode = 201
  /\ Cardinality(DOMAIN table) = 2

\* C9: every stored item has PK = tenant#{tenantId}#user#{userId} and
\* SK = task#{taskId}, is stored under <<PK, SK>>, and carries the PK, SK,
\* tenantId, userId and taskId it was created with; an Update never
\* changes these five, whatever its body names.
C9_IdentityInvariant ==
  /\ \A key \in DOMAIN table :
       LET item == table[key] IN
       /\ \A n \in {<<"PK">>, <<"SK">>, <<"tenantId">>, <<"userId">>, <<"taskId">>} :
            /\ n \in DOMAIN item
            /\ item[n].ty = "str" /\ item[n].s # <<>>
            /\ key \in DOMAIN origin /\ origin[key][n] = item[n]
       /\ item[<<"PK">>].s =
            <<"tenant#">> \o item[<<"tenantId">>].s \o <<"#user#">> \o item[<<"userId">>].s
       /\ item[<<"SK">>].s = <<"task#">> \o item[<<"taskId">>].s
       /\ key = <<item[<<"PK">>].s, item[<<"SK">>].s>>
  /\ Done /\ req.httpMethod = "PUT" =>
       \A key \in DOMAIN pre :
         /\ key \in DOMAIN table
         /\ \A n \in {<<"PK">>, <<"SK">>, <<"tenantId">>, <<"userId">>, <<"taskId">>} :
              table[key][n] = pre[key][n]

\* an Update naming the five identity attributes and status has changed
\* the status of a stored task
C9_Witness ==
  /\ Done
  /\ req.httpMethod = "PUT" /\ HasKey(req) /\ IsObject(req)
  /\ {<<"PK">>, <<"SK">>, <<"tenantId">>, <<"userId">>, <<"taskId">>, <<"status">>}
       \subseteq DOMAIN BodyJson(req).v.d
  /\ resp.statusCode = 200
  /\ ReqKey(req) \in DOMAIN pre
  /\ pre[ReqKey(req)][<<"status">>] = VStr(<<"pending">>)
  /\ table[ReqKey(req)][<<"status">>] = VStr(<<"done">>)

\* C6: under every interleaving, an Update whose conditional store call
\* finds no item under its key returns 404 "Task not found" (or, if the
\* call fails at store level, raises) and leaves no item under that key; an
\* item is stored under a key exactly if a Create wrote it and no Delete
\* has removed it since.
C6_UpdateNeverCreates ==
  /\ DOMAIN table = DOMAIN origin
  /\ \A w \in Workers :
       workers[w].pc = "done" /\ workers[w].call.op = "update" /\ workers[w].absentBefore
         => /\ workers[w].absentAfter
            /\ IF workers[w].err \in {"", "ConditionalCheckFailedException"}
               THEN IsError(workers[w].resp, 404, "Task not found")
               ELSE workers[w].resp.raised = "ClientError"

\* an Update answered 404 for a key that a concurrent Delete, answered
\* 200, removed
C6_Witness ==
  \E w1 \in Workers, w2 \in Workers :
    /\ workers[w1].pc = "done" /\ workers[w1].call.op = "update"
    /\ workers[w1].absentBefore /\ workers[w1].resp.statusCode = 404
    /\ workers[w2].pc = "done" /\ workers[w2].call.op = "delete"
    /\ workers[w2].resp.statusCode = 200
    /\ CallKey(workers[w2].call) = CallKey(workers[w1].call)

====
